---------------------------- MODULE Spec2Model ----------------------------
(***************************************************************************)
(* Peer descriptor registry (src/unnamed/part_000).  The file holds         *)
(* several variants of one service; two of them carry the logic that the   *)
(* specification describes:                                                *)
(*   "legacy" : lines 1-394, keys are the bare peerId (valueStorePrefix =  *)
(*              ""), lookup falls back to a scan by embedded peerId, and   *)
(*              registration runs cleanupLegacyEntries;                    *)
(*   "peer"   : lines 396-916, keys are "/peer/" + peerId, stored bytes    *)
(*              are decoded, migrated and normalised on read.              *)
(* The variant of lines 918-1192 and src/empty.go get, put and delete by   *)
(* key alone and are not modelled.  listValues is modelled for the peer    *)
(* variant, where it decodes and repairs what it reads.                    *)
(* Strings are sequences of one-character strings so that trimming,        *)
(* splitting and prefixing are computed, not assumed.                      *)
(***************************************************************************)
EXTENDS Integers, Sequences, FiniteSets, TLC

VARIABLES variant, store, procs, rq, rs

vars == <<variant, store, procs, rq, rs>>

(***************************** strings ************************************)

SP == " "
SL == "/"

RECURSIVE TrimLeft(_, _)
TrimLeft(s, cut) ==
    IF s # <<>> /\ Head(s) \in cut THEN TrimLeft(Tail(s), cut) ELSE s

RECURSIVE TrimRight(_, _)
TrimRight(s, cut) ==
    IF s # <<>> /\ s[Len(s)] \in cut
    THEN TrimRight(SubSeq(s, 1, Len(s) - 1), cut)
    ELSE s

\* strings.Trim(s, cutset)
Trim(s, cut) == TrimRight(TrimLeft(s, cut), cut)

\* strings.TrimSpace(s)
TrimSpace(s) == Trim(s, {SP})

\* strings.Split(s, "/"): the sequence of segments between separators
RECURSIVE Split(_, _)
Split(s, sep) ==
    IF \A i \in 1..Len(s) : s[i] # sep
    THEN <<s>>
    ELSE LET i == CHOOSE j \in 1..Len(s) :
                      s[j] = sep /\ \A k \in 1..(j - 1) : s[k] # sep
         IN  <<SubSeq(s, 1, i - 1)>> \o Split(SubSeq(s, i + 1, Len(s)), sep)

HasPrefix(s, p) == Len(s) >= Len(p) /\ SubSeq(s, 1, Len(p)) = p

\* strings.TrimPrefix(s, p)
TrimPrefix(s, p) == IF HasPrefix(s, p) THEN SubSeq(s, Len(p) + 1, Len(s)) ELSE s

(************************ identifiers and keys *****************************)

\* the longest run of blanks around an identifier, and the most segments of a
\* request path
MaxPad == 1
MaxSegments == 2

Pad == [i \in 1..MaxPad |-> SP]

A == <<"a">>
B == <<"b">>
APad == Pad \o A
\* keys of an older addressing scheme, unrelated to the peerId
OldKey == <<"o">>
OldKey2 == <<"q">>
\* the reserved route token compared in getPeerIDFromRequest
ReservedToken == <<"d", "e", "l", "e", "t", "e">>

\* const valueStorePrefix = "" of the legacy variant
valueStorePrefix == <<>>
\* the literal "/peer/" of the peer variant
PeerPrefix == <<SL, "p", "e", "e", "r", SL>>

Variants == {"legacy", "peer"}

CanonicalKey(v, peerID) ==
    IF v = "legacy" THEN valueStorePrefix \o peerID ELSE PeerPrefix \o peerID

\* the keys a store of each variant may hold in the model
Keys(v) ==
    IF v = "legacy" THEN {A, B, OldKey, OldKey2}
    ELSE {CanonicalKey(v, A), CanonicalKey(v, B), CanonicalKey(v, OldKey)}

(************************ stored bytes and JSON ****************************)

\* map[string]valueMetrics as a function from metric name to metric
NoValues == [n \in {} |-> 0]
Metric(c, s, h) == [current |-> c, softLimit |-> s, hardLimit |-> h]
Values(c, s, h) == [n \in {"metric"} |-> Metric(c, s, h)]

\* *legacyValueLimits: <<>> is the absent (nil) limits object
NoLimits == <<>>
Limits(s, h) == <<[soft |-> s, hard |-> h]>>

\* a value of the store: bytes that are not JSON of the expected shape, or a
\* JSON object with the fields the code reads
Garbage == [kind |-> "garbage"]
NoDoc == [kind |-> "absent"]
Doc(peerId, ip, raw, values, limits) ==
    [kind |-> "json", peerId |-> peerId, ip |-> ip, raw |-> raw,
     values |-> values, limits |-> limits]

IP == <<"1">>
RAW == <<"r">>

(******************** legacy variant: payload codec ************************)

\* json.Unmarshal(data, &payload) into the legacy valuePayload (lines 33-38):
\* unknown fields are dropped, an absent limits object is the zero struct
Unmarshal1(data) ==
    IF data.kind = "json"
    THEN [ok |-> TRUE,
          payload |-> [PeerID |-> data.peerId, IP |-> data.ip, Raw |-> data.raw,
                       Limits |-> IF data.limits = NoLimits
                                  THEN [soft |-> 0, hard |-> 0]
                                  ELSE data.limits[1]]]
    ELSE [ok |-> FALSE,
          payload |-> [PeerID |-> <<>>, IP |-> <<>>, Raw |-> <<>>,
                       Limits |-> [soft |-> 0, hard |-> 0]]]

\* json.Marshal(payload) of the legacy valuePayload: no values field is written
Marshal1(payload) ==
    Doc(payload.PeerID, payload.IP, payload.Raw, NoValues, <<payload.Limits>>)

validateValuePayload1(v) ==
    IF TrimSpace(v.PeerID) = <<>> THEN "peerId is required"
    ELSE IF TrimSpace(v.IP) = <<>> THEN "address.ip is required"
    ELSE IF TrimSpace(v.Raw) = <<>> THEN "raw is required"
    ELSE ""

(********************* peer variant: payload codec *************************)

metricKey == "metric"
metricMin == 0
metricMax == 100

\* json.Unmarshal(data, &payload) into the peer valuePayload (lines 426-431)
Unmarshal2(data) ==
    IF data.kind = "json"
    THEN [ok |-> TRUE,
          payload |-> [PeerID |-> data.peerId, IP |-> data.ip, Raw |-> data.raw,
                       Values |-> data.values]]
    ELSE [ok |-> FALSE,
          payload |-> [PeerID |-> <<>>, IP |-> <<>>, Raw |-> <<>>,
                       Values |-> NoValues]]

\* json.Marshal(payload) of the peer valuePayload: no limits field is written
Marshal2(payload) ==
    Doc(payload.PeerID, payload.IP, payload.Raw, payload.Values, NoLimits)

\* every number that JSON decoding yields is finite
isFinite(value) == value \in Int

validateValuePayload2(v) ==
    IF TrimSpace(v.PeerID) = <<>> THEN "peerId is required"
    ELSE IF TrimSpace(v.IP) = <<>> THEN "address.ip is required"
    ELSE IF TrimSpace(v.Raw) = <<>> THEN "raw is required"
    ELSE IF DOMAIN v.Values = {} THEN "values.metric is required"
    ELSE IF metricKey \notin DOMAIN v.Values THEN "values.metric is required"
    ELSE LET metric == v.Values[metricKey] IN
         IF ~isFinite(metric.current) \/ ~isFinite(metric.softLimit)
               \/ ~isFinite(metric.hardLimit)
         THEN "values.metric contains invalid numbers"
         ELSE IF metric.softLimit < metricMin \/ metric.softLimit > metricMax
         THEN "values.metric.softLimit must be between 0 and 100"
         ELSE IF metric.hardLimit < metricMin \/ metric.hardLimit > metricMax
         THEN "values.metric.hardLimit must be between 0 and 100"
         ELSE IF metric.current < metricMin \/ metric.current > metricMax
         THEN "values.metric.current must be between 0 and 100"
         ELSE IF metric.softLimit > metric.hardLimit
         THEN "values.metric.softLimit must be <= hardLimit"
         ELSE ""

clampMetricValue(value) ==
    IF ~isFinite(value) THEN metricMin
    ELSE IF value < metricMin THEN metricMin
    ELSE IF value > metricMax THEN metricMax
    ELSE value

\* the migration with current left at the minimum
migrateLegacyValues_CurrentZero(data) ==
    IF data.kind # "json" \/ data.limits = NoLimits
    THEN [ok |-> FALSE, values |-> NoValues]
    ELSE LET soft0 == clampMetricValue(data.limits[1].soft)
             hard == clampMetricValue(data.limits[1].hard)
             soft == IF soft0 > hard THEN hard ELSE soft0
         IN  [ok |-> TRUE, values |-> Values(metricMin, soft, hard)]

\* the migration without the lowering of soft to hard
migrateLegacyValues_NoOrder(data) ==
    IF data.kind # "json" \/ data.limits = NoLimits
    THEN [ok |-> FALSE, values |-> NoValues]
    ELSE LET soft == clampMetricValue(data.limits[1].soft)
             hard == clampMetricValue(data.limits[1].hard)
         IN  [ok |-> TRUE, values |-> Values(soft, soft, hard)]

migrateLegacyValues(data) ==
    IF data.kind # "json" \/ data.limits = NoLimits
    THEN [ok |-> FALSE, values |-> NoValues]
    ELSE LET soft0 == clampMetricValue(data.limits[1].soft)
             hard == clampMetricValue(data.limits[1].hard)
             soft == IF soft0 > hard THEN hard ELSE soft0
         IN  [ok |-> TRUE, values |-> Values(soft, soft, hard)]

\* the normalisation that reports the change and returns the map as it was
normaliseValues_Discard(values) ==
    IF DOMAIN values = {} \/ metricKey \notin DOMAIN values
    THEN [err |-> "values.metric is required", values |-> values, changed |-> FALSE]
    ELSE LET metric == values[metricKey]
             hard == clampMetricValue(metric.hardLimit)
             soft0 == clampMetricValue(metric.softLimit)
             soft == IF soft0 > hard THEN hard ELSE soft0
             cur0 == clampMetricValue(metric.current)
             cur == IF cur0 > hard THEN hard ELSE cur0
         IN  [err |-> "", values |-> values,
              changed |-> metric.current # cur \/ metric.softLimit # soft
                             \/ metric.hardLimit # hard]

\* the normalisation without the pull of current down to hardLimit
normaliseValues_NoPull(values) ==
    IF DOMAIN values = {} \/ metricKey \notin DOMAIN values
    THEN [err |-> "values.metric is required", values |-> values, changed |-> FALSE]
    ELSE LET metric == values[metricKey]
             hard == clampMetricValue(metric.hardLimit)
             soft0 == clampMetricValue(metric.softLimit)
             soft == IF soft0 > hard THEN hard ELSE soft0
             cur == clampMetricValue(metric.current)
             normalised == Metric(cur, soft, hard)
             changed == metric.current # cur \/ metric.softLimit # soft
                           \/ metric.hardLimit # hard
         IN  [err |-> "",
              values |-> IF changed
                         THEN [values EXCEPT ![metricKey] = normalised]
                         ELSE values,
              changed |-> changed]

normaliseValues(values) ==
    IF DOMAIN values = {} \/ metricKey \notin DOMAIN values
    THEN [err |-> "values.metric is required", values |-> values, changed |-> FALSE]
    ELSE LET metric == values[metricKey]
             hard == clampMetricValue(metric.hardLimit)
             soft0 == clampMetricValue(metric.softLimit)
             soft == IF soft0 > hard THEN hard ELSE soft0
             cur0 == clampMetricValue(metric.current)
             cur1 == IF cur0 > hard THEN hard ELSE cur0
             cur == IF cur1 < metricMin THEN metricMin ELSE cur1
             normalised == Metric(cur, soft, hard)
             changed == metric.current # cur \/ metric.softLimit # soft
                           \/ metric.hardLimit # hard
         IN  [err |-> "",
              values |-> IF changed
                         THEN [values EXCEPT ![metricKey] = normalised]
                         ELSE values,
              changed |-> changed]

\* the decoding that returns what json.Unmarshal produced, unrepaired and
\* unvalidated
decodeValuePayload_Unchecked(data, storageKey) ==
    LET u == Unmarshal2(data) IN
    IF ~u.ok THEN [err |-> "decode", payload |-> u.payload, updated |-> FALSE]
    ELSE [err |-> "", payload |-> u.payload, updated |-> FALSE]

decodeValuePayload(data, storageKey) ==
    LET u == Unmarshal2(data) IN
    IF ~u.ok THEN [err |-> "decode", payload |-> u.payload, updated |-> FALSE]
    ELSE
    LET m == migrateLegacyValues(data)
        migrated == DOMAIN u.payload.Values = {} /\ m.ok
        p1 == IF migrated THEN [u.payload EXCEPT !.Values = m.values] ELSE u.payload
        n == normaliseValues(p1.Values)
    IN  IF n.err # "" THEN [err |-> n.err, payload |-> p1, updated |-> FALSE]
        ELSE
        LET p2 == [p1 EXCEPT !.Values = n.values]
            derive == TrimSpace(p2.PeerID) = <<>>
            trimmed == TrimPrefix(storageKey, PeerPrefix)
            p3 == IF derive
                  THEN [p2 EXCEPT !.PeerID = IF trimmed = <<>> THEN storageKey
                                             ELSE trimmed]
                  ELSE p2
            verr == validateValuePayload2(p3)
        IN  IF verr # "" THEN [err |-> verr, payload |-> p3, updated |-> FALSE]
            ELSE [err |-> "", payload |-> p3,
                  updated |-> migrated \/ n.changed \/ derive]

(************************* identifier resolver *****************************)

\* a query parameter or none: <<>> when query.Get fails, <<value>> otherwise
NoParam == <<>>
Param(s) == <<s>>

EmptyBody == [kind |-> "empty", id |-> <<>>, peerId |-> <<>>]
MalformedBody == [kind |-> "malformed", id |-> <<>>, peerId |-> <<>>]
JsonBody(id, peerId) == [kind |-> "json", id |-> id, peerId |-> peerId]

Request(path, qPeerId, qId, body) ==
    [path |-> path, qPeerId |-> qPeerId, qId |-> qId, body |-> body]

getPeerIDFromPath(path) ==
    LET trimmed == Trim(path, {SL}) IN
    IF trimmed = <<>> THEN [err |-> "missing peerId", id |-> <<>>]
    ELSE LET segments == Split(trimmed, SL)
             id == segments[Len(segments)]
         IN  IF id = <<>> THEN [err |-> "missing peerId", id |-> <<>>]
             ELSE [err |-> "", id |-> id]

\* getPeerIDFromRequest that takes an undecodable body for an absent one
getPeerIDFromRequest_LenientBody(req) ==
    LET fromPath == getPeerIDFromPath(req.path) IN
    IF fromPath.err = "" /\ TrimSpace(fromPath.id) # ReservedToken
    THEN [err |-> "", id |-> fromPath.id]
    ELSE IF req.qPeerId # NoParam /\ TrimSpace(req.qPeerId[1]) # <<>>
    THEN [err |-> "", id |-> TrimSpace(req.qPeerId[1])]
    ELSE IF req.qId # NoParam /\ TrimSpace(req.qId[1]) # <<>>
    THEN [err |-> "", id |-> TrimSpace(req.qId[1])]
    ELSE IF req.body.kind # "json"
    THEN [err |-> "missing peerId", id |-> <<>>]
    ELSE IF TrimSpace(req.body.peerId) # <<>>
    THEN [err |-> "", id |-> TrimSpace(req.body.peerId)]
    ELSE IF TrimSpace(req.body.id) # <<>>
    THEN [err |-> "", id |-> TrimSpace(req.body.id)]
    ELSE [err |-> "missing peerId", id |-> <<>>]

\* getPeerIDFromRequest with the query consulted before the path
getPeerIDFromRequest_QueryFirst(req) ==
    LET fromPath == getPeerIDFromPath(req.path) IN
    IF req.qPeerId # NoParam /\ TrimSpace(req.qPeerId[1]) # <<>>
    THEN [err |-> "", id |-> TrimSpace(req.qPeerId[1])]
    ELSE IF fromPath.err = "" /\ TrimSpace(fromPath.id) # ReservedToken
    THEN [err |-> "", id |-> fromPath.id]
    ELSE IF req.qId # NoParam /\ TrimSpace(req.qId[1]) # <<>>
    THEN [err |-> "", id |-> TrimSpace(req.qId[1])]
    ELSE IF req.body.kind = "empty"
    THEN [err |-> "missing peerId", id |-> <<>>]
    ELSE IF req.body.kind = "malformed"
    THEN [err |-> "invalid payload format", id |-> <<>>]
    ELSE IF TrimSpace(req.body.peerId) # <<>>
    THEN [err |-> "", id |-> TrimSpace(req.body.peerId)]
    ELSE IF TrimSpace(req.body.id) # <<>>
    THEN [err |-> "", id |-> TrimSpace(req.body.id)]
    ELSE [err |-> "missing peerId", id |-> <<>>]

getPeerIDFromRequest(req) ==
    LET fromPath == getPeerIDFromPath(req.path) IN
    IF fromPath.err = "" /\ TrimSpace(fromPath.id) # ReservedToken
    THEN [err |-> "", id |-> fromPath.id]
    ELSE IF req.qPeerId # NoParam /\ TrimSpace(req.qPeerId[1]) # <<>>
    THEN [err |-> "", id |-> TrimSpace(req.qPeerId[1])]
    ELSE IF req.qId # NoParam /\ TrimSpace(req.qId[1]) # <<>>
    THEN [err |-> "", id |-> TrimSpace(req.qId[1])]
    ELSE IF req.body.kind = "empty"
    THEN [err |-> "missing peerId", id |-> <<>>]
    ELSE IF req.body.kind = "malformed"
    THEN [err |-> "invalid payload format", id |-> <<>>]
    ELSE IF TrimSpace(req.body.peerId) # <<>>
    THEN [err |-> "", id |-> TrimSpace(req.body.peerId)]
    ELSE IF TrimSpace(req.body.id) # <<>>
    THEN [err |-> "", id |-> TrimSpace(req.body.id)]
    ELSE [err |-> "missing peerId", id |-> <<>>]

(***************************** the store ***********************************)

\* db.Get(k): fails for a key that is absent, and for a key in bad (a storage
\* error of this call)
Get(db, k, bad) ==
    IF k \in DOMAIN db /\ db[k] # NoDoc /\ k \notin bad
    THEN [ok |-> TRUE, data |-> db[k]]
    ELSE [ok |-> FALSE, data |-> NoDoc]

\* the keys db.List(prefix) reports
ListKeys(db, prefix) == {k \in DOMAIN db : db[k] # NoDoc /\ HasPrefix(k, prefix)}

\* db.List returns the keys in an order the store chooses
Perms(S) ==
    {q \in [1..Cardinality(S) -> S] : \A i, j \in 1..Cardinality(S) : q[i] = q[j] => i = j}

\* db.Put(k, data) and db.Delete(k) when they succeed
Put(db, k, data) == [db EXCEPT ![k] = data]
Delete(db, k) == [db EXCEPT ![k] = NoDoc]

\* the storage errors one lookup may meet: Get fails on the keys of bad (at
\* most one key here), List fails when list is FALSE
Faults(v) == [bad : {{}} \cup {{k} : k \in Keys(v)}, list : BOOLEAN]
NoFaults == [bad |-> {}, list |-> TRUE]

(******************* legacy variant: lookup and cleanup ********************)

\* the condition without the trimming of the stored peerId
MatchesPeerID_NoTrim(data, peerID) ==
    /\ Unmarshal1(data).ok
    /\ Unmarshal1(data).payload.PeerID = TrimSpace(peerID)
    /\ Unmarshal1(data).payload.PeerID # <<>>

\* the condition without the comparison of the peerId
MatchesPeerID_AnyPeer(data, peerID) ==
    /\ Unmarshal1(data).ok
    /\ Unmarshal1(data).payload.PeerID # <<>>

\* the condition of lines 177 and 206 on a stored value
MatchesPeerID(data, peerID) ==
    /\ Unmarshal1(data).ok
    /\ TrimSpace(Unmarshal1(data).payload.PeerID) = TrimSpace(peerID)
    /\ Unmarshal1(data).payload.PeerID # <<>>

RECURSIVE ScanForPeerID(_, _, _, _, _)
ScanForPeerID(db, peerID, keys, bad, i) ==
    IF i > Len(keys) THEN [err |-> "value not found", key |-> <<>>, data |-> NoDoc]
    ELSE LET g == Get(db, keys[i], bad) IN
         IF g.ok /\ MatchesPeerID(g.data, peerID)
         THEN [err |-> "", key |-> keys[i], data |-> g.data]
         ELSE ScanForPeerID(db, peerID, keys, bad, i + 1)

\* findValueByPeerID without the direct Get of the canonical key
findValueByPeerID1_ScanOnly(db, peerID, keys, f) ==
    IF ~f.list THEN [err |-> "storage", key |-> <<>>, data |-> NoDoc]
    ELSE ScanForPeerID(db, peerID, keys, f.bad, 1)

\* findValueByPeerID of the legacy variant; keys is the listing db.List returns
findValueByPeerID1(db, peerID, keys, f) ==
    LET key == valueStorePrefix \o peerID
        g == Get(db, key, f.bad)
    IN  IF g.ok THEN [err |-> "", key |-> key, data |-> g.data]
        ELSE IF ~f.list THEN [err |-> "storage", key |-> <<>>, data |-> NoDoc]
        ELSE ScanForPeerID(db, peerID, keys, f.bad, 1)

\* the listing findValueByPeerID1 obtained: none when the direct Get hit or
\* db.List failed
ListingUsed(db, peerID, keys, f) ==
    IF Get(db, valueStorePrefix \o peerID, f.bad).ok \/ ~f.list THEN <<>> ELSE keys

\* findValueByPeerID of the peer variant: the canonical key only
findValueByPeerID2(db, peerID, f) ==
    LET key == PeerPrefix \o peerID
        g == Get(db, key, f.bad)
    IN  IF g.ok THEN [err |-> "", key |-> key, data |-> g.data]
        ELSE [err |-> "value not found", key |-> <<>>, data |-> NoDoc]

(*************************** requests and state ****************************)

Slots == {"r1", "r2"}

\* what the stores of each variant may hold when the service starts
DocA == Doc(A, IP, RAW, Values(10, 20, 30), NoLimits)
DocAPad == Doc(APad, IP, RAW, Values(10, 20, 30), NoLimits)
DocB == Doc(B, IP, RAW, Values(10, 20, 30), NoLimits)
DocNoId == Doc(<<>>, IP, RAW, Values(10, 20, 30), NoLimits)
DocLegacyLimits == Doc(A, IP, RAW, NoValues, Limits(40, 90))

\* records of the peer variant that a read repairs or rejects
DocABad == Doc(A, IP, RAW, Values(150, -5, 80), NoLimits)
DocOldSchema == Doc(<<>>, IP, RAW, NoValues, Limits(40, 90))
DocNoMetric == Doc(A, IP, RAW, NoValues, NoLimits)

StoreDocs(v, k) ==
    IF v = "legacy" /\ k = A THEN {Garbage, DocA, DocNoId}
    ELSE IF v = "legacy" /\ k = B THEN {DocB}
    ELSE IF v = "legacy" THEN {Garbage, DocA, DocAPad, DocB, DocNoId}
    ELSE IF k = CanonicalKey(v, A)
    THEN {Garbage, DocA, DocABad, DocOldSchema, DocNoMetric}
    ELSE IF k = CanonicalKey(v, B) THEN {DocB}
    ELSE {DocA}

InitStores(v) ==
    {db \in [Keys(v) -> UNION {StoreDocs(v, k) : k \in Keys(v)} \cup {NoDoc}] :
        \A k \in Keys(v) : db[k] \in StoreDocs(v, k) \cup {NoDoc}}

\* request bodies of registerValue
RegBodies(v) ==
    IF v = "legacy" THEN {Garbage, DocAPad, DocB, DocNoId}
    ELSE {Garbage, DocA, DocAPad, DocNoId, DocLegacyLimits, DocABad}

\* requests of getValue and deleteValue
NoRequest == Request(<<>>, NoParam, NoParam, EmptyBody)
Requests ==
    { Request(<<SL, "a">>, NoParam, NoParam, EmptyBody),
      Request(<<SL>> \o APad, NoParam, NoParam, EmptyBody),
      Request(<<SL>> \o OldKey, NoParam, NoParam, EmptyBody),
      Request(<<SL>> \o ReservedToken, Param(B), NoParam, EmptyBody),
      Request(<<>>, NoParam, NoParam, EmptyBody),
      Request(<<>>, NoParam, NoParam, MalformedBody),
      Request(<<SL>>, NoParam, Param(<<>>), JsonBody(<<>>, A)),
      Request(<<SL>> \o ReservedToken, Param(Pad), NoParam,
              JsonBody(Pad, <<>>)) }

\* a request slot before its request arrives
Idle ==
    [op |-> "none", pc |-> "idle", in |-> NoDoc, req |-> NoRequest,
     peerID |-> <<>>, key |-> <<>>, payload |-> NoDoc, keys |-> <<>>, idx |-> 0,
     code |-> 0, msg |-> "", body |-> NoDoc, ioerr |-> FALSE,
     dels |-> {}, visited |-> {}, unread |-> {}, puts |-> {}, pre |-> <<>>,
     alone |-> FALSE, values |-> <<>>]

\* the slot when handler op starts on store db
Started(op, db) == [Idle EXCEPT !.op = op, !.pre = db, !.alone = TRUE]

\* h.Write / h.Return: the handler's locals end with it
Respond(p, code, msg) ==
    [p EXCEPT !.pc = "done", !.code = code, !.msg = msg]

\* slot s moves to p; a step of s ends the solitude of every other slot
Step(s, p) ==
    procs' = [t \in Slots |-> IF t = s THEN p ELSE [procs[t] EXCEPT !.alone = FALSE]]

Init ==
    /\ variant \in Variants
    /\ store \in InitStores(variant)
    /\ procs = [s \in Slots |-> Idle]
    /\ rq = NoRequest
    /\ rs = [err |-> "", id |-> <<>>]

(********************** legacy variant: handlers ***************************)

\* registerValue, lines 267-308: decode, validate, trim, Put
registerValue1(s) ==
    /\ variant = "legacy"
    /\ procs[s].pc = "idle"
    /\ \E b \in RegBodies(variant), putOK \in BOOLEAN :
         LET p0 == [Started("register", store) EXCEPT !.in = b]
             u == Unmarshal1(b)
             verr == validateValuePayload1(u.payload)
             peerID == TrimSpace(u.payload.PeerID)
             key == valueStorePrefix \o peerID
             p1 == [p0 EXCEPT !.peerID = peerID, !.key = key]
         IN  IF ~u.ok
             THEN Step(s, Respond(p0, 400, "invalid payload format"))
                     /\ UNCHANGED store
             ELSE IF verr # ""
             THEN Step(s, Respond(p0, 400, verr)) /\ UNCHANGED store
             ELSE IF ~putOK
             THEN Step(s, Respond([p1 EXCEPT !.ioerr = TRUE], 500,
                                  "failed to store value"))
                     /\ UNCHANGED store
             ELSE /\ store' = Put(store, key,
                                  Marshal1([u.payload EXCEPT !.PeerID = peerID]))
                  /\ Step(s, [p1 EXCEPT !.pc = "cleanup", !.puts = {key}])
    /\ UNCHANGED <<variant, rq, rs>>

\* cleanupLegacyEntries, lines 186-189: the listing
cleanupLegacyEntries_List(s) ==
    /\ procs[s].pc = "cleanup"
    /\ \E listOK \in BOOLEAN :
         IF ~listOK
         THEN Step(s, Respond([procs[s] EXCEPT !.ioerr = TRUE], 500,
                              "failed to cleanup legacy entries"))
         ELSE \E keys \in Perms(ListKeys(store, valueStorePrefix)) :
                 IF keys = <<>>
                 THEN Step(s, Respond(procs[s], 200, "created"))
                 ELSE Step(s, [procs[s] EXCEPT !.pc = "scan", !.keys = keys,
                                               !.idx = 1])
    /\ UNCHANGED <<variant, store, rq, rs>>

\* the slot after the loop body for keys[idx]: the loop goes on, or the scan
\* is over and registerValue answers (lines 213, 314-317)
AfterScanStep(p) ==
    IF p.idx + 1 > Len(p.keys)
    THEN Respond([p EXCEPT !.idx = p.idx + 1], 200, "created")
    ELSE [p EXCEPT !.idx = p.idx + 1]

\* a failed Delete that is remembered while the loop reads the remaining keys
OnDeleteError_ScanOn(p) ==
    Respond([p EXCEPT !.ioerr = TRUE,
                      !.visited = {p.keys[i] : i \in 1..Len(p.keys)} \ {p.key}],
            500, "failed to cleanup legacy entries")

\* lines 207-209 and 310-312: a failed Delete ends the scan, and registerValue
\* answers with the cleanup error
OnDeleteError(p) ==
    Respond([p EXCEPT !.ioerr = TRUE], 500, "failed to cleanup legacy entries")

\* cleanupLegacyEntries, lines 191-211: one iteration of the loop
cleanupLegacyEntries_Scan(s) ==
    /\ procs[s].pc = "scan"
    /\ LET p == procs[s]
           k == p.keys[p.idx]
       IN  IF k = p.key
           THEN Step(s, AfterScanStep(p)) /\ UNCHANGED store
           ELSE \E getOK, delOK \in BOOLEAN :
                  LET g == Get(store, k, IF getOK THEN {} ELSE {k})
                      pv == [p EXCEPT !.visited = @ \cup {k},
                                      !.unread = IF g.ok THEN @ ELSE @ \cup {k},
                                      !.ioerr = @ \/ ~getOK]
                  IN  IF ~g.ok \/ ~MatchesPeerID(g.data, p.peerID)
                      THEN Step(s, AfterScanStep(pv)) /\ UNCHANGED store
                      ELSE IF ~delOK
                      THEN Step(s, OnDeleteError(pv)) /\ UNCHANGED store
                      ELSE /\ store' = Delete(store, k)
                           /\ Step(s, AfterScanStep([pv EXCEPT !.dels = @ \cup {k}]))
    /\ UNCHANGED <<variant, rq, rs>>

\* getValue, lines 331-353, on request r with the storage errors f and the
\* listing keys
getValue1_Serve(s, r, f, keys) ==
    LET p0 == [Started("get", store) EXCEPT !.req = r]
        id == getPeerIDFromRequest(r)
        found == findValueByPeerID1(store, id.id, keys, f)
        p1 == [p0 EXCEPT !.peerID = id.id, !.ioerr = f # NoFaults,
                         !.keys = ListingUsed(store, id.id, keys, f)]
    IN  IF id.err # "" THEN Step(s, Respond(p0, 400, id.err))
        ELSE IF found.err = "value not found"
        THEN Step(s, Respond(p1, 404, found.err))
        ELSE IF found.err # ""
        THEN Step(s, Respond(p1, 500, "failed to read value"))
        ELSE Step(s, Respond([p1 EXCEPT !.key = found.key,
                                       !.body = found.data], 200, "ok"))

\* getValue, lines 321-354
getValue1(s) ==
    /\ variant = "legacy"
    /\ procs[s].pc = "idle"
    /\ \E r \in Requests, f \in Faults(variant),
          keys \in Perms(ListKeys(store, valueStorePrefix)) :
         getValue1_Serve(s, r, f, keys)
    /\ UNCHANGED <<variant, store, rq, rs>>

\* deleteValue, lines 357-384: resolve the identifier and find the record
deleteValue1(s) ==
    /\ variant = "legacy"
    /\ procs[s].pc = "idle"
    /\ \E r \in Requests, f \in Faults(variant),
          keys \in Perms(ListKeys(store, valueStorePrefix)) :
         LET p0 == [Started("delete", store) EXCEPT !.req = r]
             id == getPeerIDFromRequest(r)
             found == findValueByPeerID1(store, id.id, keys, f)
             p1 == [p0 EXCEPT !.peerID = id.id, !.ioerr = f # NoFaults,
                              !.keys = ListingUsed(store, id.id, keys, f)]
         IN  IF id.err # "" THEN Step(s, Respond(p0, 400, id.err))
             ELSE IF found.err = "value not found"
             THEN Step(s, Respond(p1, 404, found.err))
             ELSE IF found.err # ""
             THEN Step(s, Respond(p1, 500, "failed to read value"))
             ELSE Step(s, [p1 EXCEPT !.pc = "delete", !.key = found.key])
    /\ UNCHANGED <<variant, store, rq, rs>>

\* deleteValue, lines 386-393 (and 908-915): the Delete and the answer
deleteValue_Delete(s) ==
    /\ procs[s].pc = "delete"
    /\ \E delOK \in BOOLEAN :
         IF ~delOK
         THEN Step(s, Respond([procs[s] EXCEPT !.ioerr = TRUE], 500,
                              "failed to delete value"))
                 /\ UNCHANGED store
         ELSE /\ store' = Delete(store, procs[s].key)
              /\ Step(s, Respond([procs[s] EXCEPT !.dels = {procs[s].key}],
                                 200, "deleted"))
    /\ UNCHANGED <<variant, rq, rs>>

(************************ peer variant: handlers ***************************)

\* registerValue, lines 765-828
registerValue2(s) ==
    /\ variant = "peer"
    /\ procs[s].pc = "idle"
    /\ \E b \in RegBodies(variant), putOK \in BOOLEAN :
         LET p0 == [Started("register", store) EXCEPT !.in = b]
             u == Unmarshal2(b)
             m == migrateLegacyValues(b)
             payload == IF DOMAIN u.payload.Values = {} /\ m.ok
                        THEN [u.payload EXCEPT !.Values = m.values]
                        ELSE u.payload
             verr == validateValuePayload2(payload)
             n == normaliseValues(payload.Values)
             peerID == TrimSpace(payload.PeerID)
             key == PeerPrefix \o peerID
             stored == [payload EXCEPT
                          !.Values = [k \in {metricKey} |-> n.values[metricKey]],
                          !.PeerID = peerID]
             p1 == [p0 EXCEPT !.peerID = peerID, !.key = key]
         IN  IF ~u.ok
             THEN Step(s, Respond(p0, 400, "invalid payload format"))
                     /\ UNCHANGED store
             ELSE IF verr # ""
             THEN Step(s, Respond(p0, 400, verr)) /\ UNCHANGED store
             ELSE IF n.err # ""
             THEN Step(s, Respond(p0, 400, n.err)) /\ UNCHANGED store
             ELSE IF ~putOK
             THEN Step(s, Respond([p1 EXCEPT !.ioerr = TRUE], 500,
                                  "failed to store value"))
                     /\ UNCHANGED store
             ELSE /\ store' = Put(store, key, Marshal2(stored))
                  /\ Step(s, Respond([p1 EXCEPT !.puts = {key}], 200, "created"))
    /\ UNCHANGED <<variant, rq, rs>>

\* a getValue that writes back every record it reads
NeedsRewrite_Always(d) == TRUE

\* line 865: getValue writes back only what decodeValuePayload changed
NeedsRewrite(d) == d.updated

\* getValue, lines 831-863 and 875: resolve, find, decode
getValue2(s) ==
    /\ variant = "peer"
    /\ procs[s].pc = "idle"
    /\ \E r \in Requests, f \in Faults(variant) :
         LET p0 == [Started("get", store) EXCEPT !.req = r]
             id == getPeerIDFromRequest(r)
             found == findValueByPeerID2(store, id.id, f)
             d == decodeValuePayload(found.data, found.key)
             p1 == [p0 EXCEPT !.peerID = id.id, !.ioerr = f # NoFaults]
             p2 == [p1 EXCEPT !.key = found.key, !.payload = Marshal2(d.payload)]
         IN  IF id.err # "" THEN Step(s, Respond(p0, 400, id.err))
             ELSE IF found.err = "value not found"
             THEN Step(s, Respond(p1, 404, found.err))
             ELSE IF found.err # ""
             THEN Step(s, Respond(p1, 500, "failed to read value"))
             ELSE IF d.err # ""
             THEN Step(s, Respond([p1 EXCEPT !.key = found.key], 500,
                                  "stored value is invalid"))
             ELSE IF NeedsRewrite(d)
             THEN Step(s, [p2 EXCEPT !.pc = "rewrite"])
             ELSE Step(s, Respond([p2 EXCEPT !.body = p2.payload], 200, "ok"))
    /\ UNCHANGED <<variant, store, rq, rs>>

\* getValue, lines 865-875: the repaired record is written back
getValue2_Rewrite(s) ==
    /\ procs[s].pc = "rewrite"
    /\ \E putOK \in BOOLEAN :
         IF ~putOK
         THEN Step(s, Respond([procs[s] EXCEPT !.ioerr = TRUE], 500,
                              "failed to update value"))
                 /\ UNCHANGED store
         ELSE /\ store' = Put(store, procs[s].key, procs[s].payload)
              /\ Step(s, Respond([procs[s] EXCEPT !.puts = {procs[s].key},
                                                  !.body = procs[s].payload],
                                 200, "ok"))
    /\ UNCHANGED <<variant, rq, rs>>

\* deleteValue, lines 879-906: resolve the identifier and find the record
deleteValue2(s) ==
    /\ variant = "peer"
    /\ procs[s].pc = "idle"
    /\ \E r \in Requests, f \in Faults(variant) :
         LET p0 == [Started("delete", store) EXCEPT !.req = r]
             id == getPeerIDFromRequest(r)
             found == findValueByPeerID2(store, id.id, f)
             p1 == [p0 EXCEPT !.peerID = id.id, !.ioerr = f # NoFaults]
         IN  IF id.err # "" THEN Step(s, Respond(p0, 400, id.err))
             ELSE IF found.err = "value not found"
             THEN Step(s, Respond(p1, 404, found.err))
             ELSE IF found.err # ""
             THEN Step(s, Respond(p1, 500, "failed to read value"))
             ELSE Step(s, [p1 EXCEPT !.pc = "delete", !.key = found.key])
    /\ UNCHANGED <<variant, store, rq, rs>>

\* the argument of db.List in listValues (line 727)
ListPrefix == <<SL, "p", "e", "e", "r">>

\* listValues, lines 711-732 and 758-761: the listing
listValues(s) ==
    /\ variant = "peer"
    /\ procs[s].pc = "idle"
    /\ \E listOK \in BOOLEAN :
         LET p0 == Started("list", store) IN
         IF ~listOK
         THEN Step(s, Respond([p0 EXCEPT !.ioerr = TRUE], 500,
                              "failed to list values"))
         ELSE \E keys \in Perms(ListKeys(store, ListPrefix)) :
                 IF keys = <<>>
                 THEN Step(s, Respond(p0, 200, "ok"))
                 ELSE Step(s, [p0 EXCEPT !.pc = "list", !.keys = keys, !.idx = 1])
    /\ UNCHANGED <<variant, store, rq, rs>>

\* the slot after payload was appended for keys[idx]: the loop goes on, or
\* listValues answers with the values (lines 755-761)
AfterListStep(p, payload) ==
    LET q == [p EXCEPT !.idx = p.idx + 1, !.values = Append(p.values, payload)]
    IN  IF p.idx + 1 > Len(p.keys) THEN Respond(q, 200, "ok") ELSE q

\* listValues, lines 733-743: Get and decode of keys[idx]
listValues_Read(s) ==
    /\ procs[s].pc = "list"
    /\ \E getOK \in BOOLEAN :
         LET p == procs[s]
             k == p.keys[p.idx]
             g == Get(store, k, IF getOK THEN {} ELSE {k})
             d == decodeValuePayload(g.data, k)
             pk == [p EXCEPT !.key = k, !.ioerr = @ \/ ~getOK,
                             !.visited = @ \cup {k}]
         IN  IF ~g.ok
             THEN Step(s, Respond(pk, 500, "failed to read value for key"))
             ELSE IF d.err # ""
             THEN Step(s, Respond(pk, 500, "stored value for key is invalid"))
             ELSE IF d.updated
             THEN Step(s, [pk EXCEPT !.pc = "listput",
                                     !.payload = Marshal2(d.payload)])
             ELSE Step(s, AfterListStep(pk, Marshal2(d.payload)))
    /\ UNCHANGED <<variant, store, rq, rs>>

\* listValues, lines 745-755: the repaired record is written back
listValues_Put(s) ==
    /\ procs[s].pc = "listput"
    /\ \E putOK \in BOOLEAN :
         LET p == procs[s] IN
         IF ~putOK
         THEN Step(s, Respond([p EXCEPT !.ioerr = TRUE], 500,
                              "failed to update value for key"))
                 /\ UNCHANGED store
         ELSE /\ store' = Put(store, p.key, p.payload)
              /\ Step(s, AfterListStep([p EXCEPT !.pc = "list",
                                                 !.puts = @ \cup {p.key}],
                                       p.payload))
    /\ UNCHANGED <<variant, rq, rs>>

\* the getValue for the same request that a client sends once its
\* deleteValue was answered "deleted"; the storage is free of errors
getValue1_AfterDelete ==
    /\ variant = "legacy"
    /\ procs["r1"].op = "delete" /\ procs["r1"].pc = "done"
    /\ procs["r1"].msg = "deleted"
    /\ procs["r2"].pc = "idle"
    /\ \E keys \in Perms(ListKeys(store, valueStorePrefix)) :
         getValue1_Serve("r2", procs["r1"].req, NoFaults, keys)
    /\ UNCHANGED <<variant, store, rq, rs>>

\* the legacy variant serves one request in a behaviour, from any store, and
\* a getValue after a deleteValue
NextLegacy ==
    \/ registerValue1("r1")
    \/ cleanupLegacyEntries_List("r1")
    \/ cleanupLegacyEntries_Scan("r1")
    \/ getValue1("r1")
    \/ deleteValue1("r1")
    \/ getValue1_AfterDelete

\* the peer variant serves two requests that interleave at every storage call
NextPeer ==
    \E s \in Slots :
        \/ registerValue2(s)
        \/ getValue2(s)
        \/ getValue2_Rewrite(s)
        \/ deleteValue2(s)
        \/ listValues(s)
        \/ listValues_Read(s)
        \/ listValues_Put(s)

Next ==
    \/ NextLegacy
    \/ NextPeer
    \/ \E s \in Slots : deleteValue_Delete(s)

Spec == Init /\ [][Next]_vars

(*********************** the resolver on its own ***************************)

ABC == <<"a", "b", "c">>
XYZ == <<"x", "y", "z">>

\* path segments: plain, reserved, blank, padded, empty (a doubled or trailing
\* slash)
Segments ==
    {ABC, ReservedToken, Pad, Pad \o ABC \o Pad, Pad \o ReservedToken, ABC \o Pad,
     <<>>}

RECURSIVE JoinPath(_)
JoinPath(segs) ==
    IF segs = <<>> THEN <<>> ELSE <<SL>> \o Head(segs) \o JoinPath(Tail(segs))

Paths == {JoinPath(q) : q \in UNION {[1..n -> Segments] : n \in 0..MaxSegments}}

AllRequests ==
    { Request(path, qp, qi, body) :
        path \in Paths,
        qp \in {NoParam, Param(<<>>), Param(XYZ), Param(Pad \o XYZ \o Pad), Param(Pad)},
        qi \in {NoParam, Param(<<"q">>), Param(Pad)},
        body \in {EmptyBody, MalformedBody, JsonBody(<<>>, <<>>),
                  JsonBody(<<"i">>, <<>>), JsonBody(<<"i">>, <<"p">>),
                  JsonBody(Pad, Pad \o <<"p">>), JsonBody(Pad \o <<"i">>, Pad)} }

Pending == [err |-> "pending", id |-> <<>>]

InitResolve ==
    /\ variant = "peer"
    /\ store = [k \in Keys("peer") |-> NoDoc]
    /\ procs = [s \in Slots |-> Idle]
    /\ rq \in AllRequests
    /\ rs = Pending

\* getPeerIDFromRequest applied to the request rq
Resolve ==
    /\ rs = Pending
    /\ rs' = getPeerIDFromRequest(rq)
    /\ UNCHANGED <<variant, store, procs, rq>>

SpecResolve == InitResolve /\ [][Resolve]_vars

(************************* the codec on its own ****************************)

\* the storage key of the migration scenario, bare and under the prefix
P1 == <<"p", "1">>
CodecKeys == {P1, PeerPrefix \o P1}

\* numbers below, at, inside and above the range [metricMin, metricMax]
MetricGrid == {-5, 0, 40, 80, 90, 100, 150}

\* a values map without the recognised metric, and one with a second metric
OtherOnly == [n \in {"other"} |-> Metric(10, 20, 30)]
WithOther ==
    [n \in {"metric", "other"} |->
        IF n = "metric" THEN Metric(150, -5, 80) ELSE Metric(200, 1, 2)]

CodecValues ==
    {NoValues, OtherOnly, WithOther}
        \cup {Values(c, s, h) : c \in MetricGrid, s \in MetricGrid, h \in MetricGrid}

CodecLimits == {NoLimits} \cup {Limits(s, h) : s \in MetricGrid, h \in MetricGrid}

\* peerId, address.ip and raw of the stored bytes
CodecIdentities ==
    { <<id, IP, RAW>> : id \in {<<>>, Pad, P1, Pad \o P1} }
        \cup { <<<<>>, <<>>, <<>>>>, <<P1, IP, <<>>>>, <<P1, Pad, RAW>> }

\* stored bytes: every values map beside no or one limits object, and every
\* limits object beside a values map that lacks the metric
CodecDocs ==
    {Garbage}
        \cup { Doc(i[1], i[2], i[3], v, l) :
                 i \in CodecIdentities, v \in CodecValues,
                 l \in {NoLimits, Limits(40, 90)} }
        \cup { Doc(i[1], i[2], i[3], v, l) :
                 i \in CodecIdentities, v \in {NoValues, OtherOnly},
                 l \in CodecLimits }

InitCodec ==
    /\ variant = "peer"
    /\ store = [k \in Keys("peer") |-> NoDoc]
    /\ procs = [s \in Slots |-> Idle]
    /\ rq \in [data : CodecDocs, key : CodecKeys]
    /\ rs = [stage |-> "pending"]

\* decodeValuePayload applied to the bytes rq.data read under rq.key
Decode ==
    /\ rs.stage = "pending"
    /\ rs' = [stage |-> "decoded", out |-> decodeValuePayload(rq.data, rq.key)]
    /\ UNCHANGED <<variant, store, procs, rq>>

\* json.Marshal of the decoded descriptor (lines 746, 866), read and decoded
\* again under the same key
Redecode ==
    /\ rs.stage = "decoded" /\ rs.out.err = ""
    /\ rs' = [stage |-> "redecoded", out |-> rs.out,
              again |-> decodeValuePayload(Marshal2(rs.out.payload), rq.key)]
    /\ UNCHANGED <<variant, store, procs, rq>>

\* normaliseValues applied to the values map of the bytes
Normalise ==
    /\ rs.stage = "pending" /\ Unmarshal2(rq.data).ok
    /\ rs' = [stage |-> "normalised", in |-> Unmarshal2(rq.data).payload.Values,
              out |-> normaliseValues(Unmarshal2(rq.data).payload.Values)]
    /\ UNCHANGED <<variant, store, procs, rq>>

\* migrateLegacyValues applied to the bytes, twice
Migrate ==
    /\ rs.stage = "pending"
    /\ rs' = [stage |-> "migrated", out |-> migrateLegacyValues(rq.data),
              again |-> migrateLegacyValues(rq.data)]
    /\ UNCHANGED <<variant, store, procs, rq>>

NextCodec == Decode \/ Redecode \/ Normalise \/ Migrate

SpecCodec == InitCodec /\ [][NextCodec]_vars

(************************* claims: the resolver ****************************)

\* the last segment of a path, read off the path itself: what lies between
\* the last slash that is followed by another character and the trailing slashes
LastSegment(path) ==
    LET ends == {i \in 1..Len(path) : path[i] # SL}
        n == IF ends = {} THEN 0 ELSE CHOOSE i \in ends : \A j \in ends : j <= i
        cuts == {i \in 1..n : path[i] = SL}
        m == IF cuts = {} THEN 0 ELSE CHOOSE i \in cuts : \A j \in cuts : j <= i
    IN  SubSeq(path, m + 1, n)

ParamCandidate(q) == IF q = NoParam THEN <<>> ELSE TrimSpace(q[1])

\* the five candidates in the order of the claim; the path segment is passed
\* over when it is the reserved token (line 656 compares it trimmed)
Candidates(req) ==
    << IF TrimSpace(LastSegment(req.path)) = ReservedToken
       THEN <<>> ELSE LastSegment(req.path),
       ParamCandidate(req.qPeerId),
       ParamCandidate(req.qId),
       IF req.body.kind = "json" THEN TrimSpace(req.body.peerId) ELSE <<>>,
       IF req.body.kind = "json" THEN TrimSpace(req.body.id) ELSE <<>> >>

FirstNonEmpty(cands) ==
    LET hits == {i \in 1..Len(cands) : cands[i] # <<>>} IN
    IF hits = {} THEN <<>>
    ELSE cands[CHOOSE i \in hits : \A j \in hits : i <= j]

\* C8: getPeerIDFromRequest succeeds exactly when some candidate is non-empty
\* and then returns the first non-empty one in the order path segment (unless
\* reserved), query peerId, query id, body peerId, body id; path "abc" with
\* query peerId=xyz gives "abc", path "delete" with query peerId=xyz gives "xyz".
C8_ResolverPrecedence ==
    rs # Pending =>
        /\ (rs.err = "") = (FirstNonEmpty(Candidates(rq)) # <<>>)
        /\ rs.err = "" => rs.id = FirstNonEmpty(Candidates(rq))
        /\ (LastSegment(rq.path) = ABC /\ rq.qPeerId = Param(XYZ)) => rs.id = ABC
        /\ (LastSegment(rq.path) = ReservedToken /\ rq.qPeerId = Param(XYZ))
              => rs.id = XYZ

C8_Witness ==
    /\ rs # Pending
    /\ LastSegment(rq.path) = ReservedToken
    /\ rq.qPeerId = Param(XYZ)
    /\ rq.body.kind = "json"
    /\ rs.id = XYZ

\* C9: an identifier that getPeerIDFromRequest returns is non-empty and has no
\* leading or trailing whitespace, and a path whose last segment is blank
\* counts as empty, so that the query and the body decide.
C9_PathIdentifierTrimmed ==
    rs # Pending =>
        /\ rs.err = "" => (rs.id # <<>> /\ TrimSpace(rs.id) = rs.id)
        /\ (LastSegment(rq.path) # <<>> /\ TrimSpace(LastSegment(rq.path)) = <<>>)
              => rs = getPeerIDFromRequest([rq EXCEPT !.path = <<>>])

(********************** claims: lookup and cleanup *************************)

Present(db, k) == k \in DOMAIN db /\ db[k] # NoDoc

\* the keys whose stored bytes decode to a record of peer p
RecordsOf(db, p) ==
    {k \in DOMAIN db : db[k].kind = "json" /\ TrimSpace(db[k].peerId) = p}

\* the keys whose stored bytes decode and carry a non-empty peerId equal to p
\* after trimming
Matching(db, p) ==
    {k \in DOMAIN db : /\ db[k].kind = "json"
                       /\ db[k].peerId # <<>>
                       /\ TrimSpace(db[k].peerId) = TrimSpace(p)}

RegisteredAlone(p) ==
    /\ variant = "legacy"
    /\ p.op = "register"
    /\ p.pc = "done"
    /\ p.alone

\* C1: after a registerValue for p that ran alone, met no storage error and
\* answered "created", the only stored record whose peerId trims to p is the
\* one under the canonical key of p (legacy variant, lines 267-318).
C1_OneRecordAfterRegister ==
    \A s \in Slots :
        LET p == procs[s] IN
        (RegisteredAlone(p) /\ p.msg = "created" /\ ~p.ioerr)
            => RecordsOf(store, p.peerID) = {CanonicalKey(variant, p.peerID)}

C1_Witness ==
    \E s \in Slots :
        LET p == procs[s] IN
        /\ RegisteredAlone(p) /\ p.msg = "created" /\ ~p.ioerr
        /\ \E k \in p.dels : p.pre[k] = DocAPad
        /\ Present(p.pre, p.key)

\* the listing order of the scan that found key k among the matching records
FirstMatch(keys, k, hits) ==
    \E i \in 1..Len(keys) : keys[i] = k /\ \A j \in 1..(i - 1) : keys[j] \notin hits

\* findValueByPeerID ran for slot p without a storage error
Looked(p) ==
    /\ p.op \in {"get", "delete"}
    /\ p.pc # "idle"
    /\ p.code # 400
    /\ ~p.ioerr

\* the lookup with the scan fallback, as the claim describes it
FindsWithScan(p) ==
    LET canon == CanonicalKey(variant, p.peerID)
        hits == Matching(p.pre, p.peerID)
    IN  /\ Present(p.pre, canon) => (p.code # 404 /\ p.key = canon)
        /\ (~Present(p.pre, canon) /\ hits # {})
              => (p.code # 404 /\ p.key \in hits /\ FirstMatch(p.keys, p.key, hits))
        /\ (~Present(p.pre, canon) /\ hits = {}) => p.code = 404
        /\ p.msg # "failed to read value"

\* the lookup by the canonical key alone
FindsDirectOnly(p) ==
    LET canon == CanonicalKey(variant, p.peerID) IN
    /\ Present(p.pre, canon) => (p.code # 404 /\ p.key = canon)
    /\ ~Present(p.pre, canon) => p.code = 404
    /\ p.msg # "failed to read value"

\* C2 as stated: every findValueByPeerID tries the canonical key, then scans
\* the listed keys for the first record whose peerId matches, and reports
\* NotFound exactly when both miss.
C2_FindScansEveryVariant ==
    \A s \in Slots : Looked(procs[s]) => FindsWithScan(procs[s])

\* C2 as amended: the findValueByPeerID of the legacy variant (lines 155-183)
\* tries the canonical key, then scans for the first matching record, and
\* reports NotFound exactly when both miss; the one of the peer variant (lines
\* 699-706) tries the canonical key only and reports NotFound whenever it is
\* absent.
C2_FindByVariant ==
    \A s \in Slots :
        Looked(procs[s]) =>
            IF variant = "legacy" THEN FindsWithScan(procs[s])
            ELSE FindsDirectOnly(procs[s])

C2_Witness ==
    \E s \in Slots :
        LET p == procs[s] IN
        /\ variant = "legacy" /\ Looked(p) /\ p.code = 200
        /\ p.key # CanonicalKey(variant, p.peerID)
        /\ Cardinality(Matching(p.pre, p.peerID)) >= 2

\* C3: a cleanupLegacyEntries whose deletes all succeeded removed exactly the
\* keys other than keepKey whose readable value decodes to a non-empty peerId
\* that trims to p; every other key holds the value it held before.
C3_CleanupRemovesExactly ==
    \A s \in Slots :
        LET p == procs[s] IN
        (RegisteredAlone(p) /\ p.msg = "created") =>
            \A k \in DOMAIN store :
                IF k # p.key /\ k \notin p.unread /\ k \in Matching(p.pre, p.peerID)
                THEN store[k] = NoDoc /\ k \in p.dels
                ELSE /\ k \notin p.dels
                     /\ k # p.key => store[k] = p.pre[k]
                     /\ k = p.key => (Present(store, k) /\ store[k].peerId = p.peerID)

C3_Witness ==
    \E s \in Slots :
        LET p == procs[s] IN
        /\ RegisteredAlone(p) /\ p.msg = "created"
        /\ p.dels # {}
        /\ \E k \in DOMAIN store : k # p.key /\ store[k] \in {Garbage, DocB, DocNoId}
        /\ \E k \in p.unread : k \in Matching(p.pre, p.peerID)

\* a registerValue whose cleanup scan was ended by a failed Delete
CleanupDeleteFailed(p) ==
    /\ RegisteredAlone(p)
    /\ p.msg = "failed to cleanup legacy entries"
    /\ p.keys # <<>>

\* C4: when a Delete fails in cleanupLegacyEntries the scan ends at that key
\* with the storage error: the keys deleted before it stay deleted, the failing
\* key keeps its value, and no later key of the listing is read or deleted.
C4_CleanupStopsAtFailedDelete ==
    \A s \in Slots :
        LET p == procs[s] IN
        CleanupDeleteFailed(p) =>
            /\ p.code = 500
            /\ p.idx \in 1..Len(p.keys)
            /\ store[p.keys[p.idx]] = p.pre[p.keys[p.idx]]
            /\ p.dels \subseteq {p.keys[i] : i \in 1..(p.idx - 1)}
            /\ \A k \in p.dels : store[k] = NoDoc
            /\ \A i \in (p.idx + 1)..Len(p.keys) :
                  /\ p.keys[i] \notin p.visited \cup p.dels
                  /\ p.keys[i] # p.key => store[p.keys[i]] = p.pre[p.keys[i]]

C4_Witness ==
    \E s \in Slots :
        LET p == procs[s] IN
        /\ CleanupDeleteFailed(p)
        /\ p.dels # {}
        /\ \E i \in (p.idx + 1)..Len(p.keys) : p.keys[i] # p.key

\* C5: every registerValue that answers "created" has, after its Put of the
\* canonical key, scanned all listed keys with the canonical key as keepKey.
C5_CleanupAfterEveryRegistration ==
    \A s \in Slots :
        LET p == procs[s] IN
        (p.op = "register" /\ p.pc = "done" /\ p.msg = "created") =>
            /\ p.puts = {p.key}
            /\ p.keys # <<>>
            /\ p.idx = Len(p.keys) + 1
            /\ \E i \in 1..Len(p.keys) : p.keys[i] = p.key

\* C6: a registerValue that reports the cleanup error leaves the canonical
\* record it wrote in the store; when a Delete failed, another key still holds
\* a record of the same peer.
C6_FailedCleanupKeepsWrite ==
    \A s \in Slots :
        LET p == procs[s] IN
        (RegisteredAlone(p) /\ p.msg = "failed to cleanup legacy entries") =>
            /\ p.code = 500
            /\ p.puts = {p.key}
            /\ Present(store, p.key)
            /\ store[p.key].peerId = p.peerID
            /\ p.keys # <<>> => RecordsOf(store, p.peerID) \ {p.key} # {}

C6_Witness ==
    \E s \in Slots :
        LET p == procs[s] IN
        /\ RegisteredAlone(p) /\ p.msg = "failed to cleanup legacy entries"
        /\ p.code = 500
        /\ p.key \in RecordsOf(store, p.peerID)
        /\ \E k \in RecordsOf(store, p.peerID) : k # p.key

(************************* claims: concurrency *****************************)

\* deleteValue in slot d has answered "deleted", getValue runs in slot g, and
\* the deleted key is in the store
Resurrected(d, g) ==
    /\ d # g
    /\ procs[d].op = "delete" /\ procs[d].pc = "done" /\ procs[d].msg = "deleted"
    /\ procs[g].op = "get"
    /\ Present(store, procs[d].key)

\* C7: with a getValue and a deleteValue in flight, a key whose deletion was
\* reported is in the store again only through the getValue's rewrite of a
\* record that needed repair, read before the Delete.
C7_OnlyRewriteResurrects ==
    \A d, g \in Slots :
        Resurrected(d, g) =>
            LET k == procs[d].key IN
            /\ procs[g].puts = {k}
            /\ Present(procs[g].pre, k)
            /\ decodeValuePayload(procs[g].pre[k], k).updated
            /\ store[k] = procs[g].body
            /\ ~procs[d].alone

C7_Witness ==
    \E d, g \in Slots :
        /\ Resurrected(d, g)
        /\ procs[g].pc = "done" /\ procs[g].code = 200
        /\ procs[g].peerID = procs[d].peerID

(********************** claims: resolver errors ****************************)

PathYields(req) ==
    LastSegment(req.path) # <<>> /\ TrimSpace(LastSegment(req.path)) # ReservedToken

QueryYields(req) ==
    ParamCandidate(req.qPeerId) # <<>> \/ ParamCandidate(req.qId) # <<>>

BodyYields(req) ==
    /\ req.body.kind = "json"
    /\ (TrimSpace(req.body.peerId) # <<>> \/ TrimSpace(req.body.id) # <<>>)

\* C10: getValue and deleteValue answer "missing peerId" exactly when path,
\* query and body all yield nothing, and "invalid payload format" exactly when
\* path and query yield nothing and the body is not JSON; both answers are 400
\* and leave the store as it was.
C10_ResolverErrors ==
    \A s \in Slots :
        LET p == procs[s] IN
        (p.op \in {"get", "delete"} /\ p.pc = "done") =>
            /\ (p.msg = "missing peerId")
                  = (~PathYields(p.req) /\ ~QueryYields(p.req)
                        /\ p.req.body.kind # "malformed" /\ ~BodyYields(p.req))
            /\ (p.msg = "invalid payload format")
                  = (~PathYields(p.req) /\ ~QueryYields(p.req)
                        /\ p.req.body.kind = "malformed")
            /\ p.msg \in {"missing peerId", "invalid payload format"} =>
                  /\ p.code = 400
                  /\ p.puts = {} /\ p.dels = {} /\ p.key = <<>>
                  /\ p.alone => store = p.pre

C10_Witness ==
    \E s, t \in Slots :
        /\ procs[s].op = "delete" /\ procs[s].msg = "invalid payload format"
        /\ procs[t].op = "get" /\ procs[t].msg = "missing peerId"
        /\ procs[t].req.body.kind = "json"
        /\ \E k \in DOMAIN store : Present(store, k)

(*************************** claims: the codec *****************************)

\* the nearest point of [0, 100] to x
NearestInRange(x) == IF x < 0 THEN 0 ELSE IF x > 100 THEN 100 ELSE x

Smaller(x, y) == IF x <= y THEN x ELSE y

\* C11: decodeValuePayload is idempotent on its own output: when decoding
\* bytes under a key succeeds, encoding the returned descriptor and decoding it
\* again under the same key succeeds, returns the same descriptor and reports
\* updated = FALSE.
C11_DecodeIdempotent ==
    rs.stage = "redecoded" =>
        /\ rs.again.err = ""
        /\ rs.again.payload = rs.out.payload
        /\ rs.again.updated = FALSE

\* a first decoding that migrated, clamped nothing away and derived the peerId
C11_Witness ==
    /\ rs.stage = "redecoded"
    /\ rs.out.updated
    /\ rq.data.values = NoValues /\ rq.data.limits = Limits(150, 40)
    /\ rq.data.peerId = <<>>
    /\ rs.again.payload.PeerID = P1

\* the bytes {"limits":{"soft":40,"hard":90}} and nothing else
LimitsOnly == Doc(<<>>, <<>>, <<>>, NoValues, Limits(40, 90))

\* a record of the old schema: limits, address.ip and raw, no peerId
OldSchemaRecord == Doc(<<>>, IP, RAW, NoValues, Limits(40, 90))

MigratedAsP1(out) ==
    /\ out.err = ""
    /\ out.payload.PeerID = P1
    /\ out.payload.Values = Values(40, 40, 90)
    /\ out.updated

\* C12 as stated: decoding bytes that consist only of the limits object
\* {soft:40, hard:90} under key "p1" succeeds, with peerId "p1", metric
\* {current:40, softLimit:40, hardLimit:90} and updated = TRUE.
C12_LimitsOnlyDecodes ==
    (rs.stage = "decoded" /\ rq.data = LimitsOnly /\ rq.key = P1)
        => MigratedAsP1(rs.out)

\* C12 amended: the decoding yields that descriptor when the bytes carry the
\* limits object beside a non-empty address.ip and raw; the bytes that consist
\* only of the limits object are rejected with "address.ip is required".
C12_LegacyRecordDecodes ==
    /\ (rs.stage = "decoded" /\ rq.data = OldSchemaRecord /\ rq.key = P1)
          => MigratedAsP1(rs.out)
    /\ (rs.stage = "decoded" /\ rq.data = LimitsOnly)
          => (rs.out.err = "address.ip is required" /\ ~rs.out.updated)

C12_Witness ==
    /\ rs.stage = "decoded" /\ rq.data = OldSchemaRecord /\ rq.key = P1
    /\ rs.out.err = "" /\ rs.out.payload.Values[metricKey].current = 40

\* C14: for every metric (c, s, h) normaliseValues yields hardLimit =
\* clamp(h), softLimit = min(clamp(s), clamp(h)), current = min(clamp(c),
\* clamp(h)); softLimit > hardLimit comes out with softLimit = hardLimit,
\* (150, -5, 80) comes out as (80, 0, 80), changed is TRUE exactly when a
\* field differs from the input, and no other entry of the map is touched.
C14_NormaliseFormula ==
    (rs.stage = "normalised" /\ metricKey \in DOMAIN rs.in) =>
        LET m == rs.in[metricKey]
            o == rs.out.values[metricKey]
        IN  /\ rs.out.err = ""
            /\ o.hardLimit = NearestInRange(m.hardLimit)
            /\ o.softLimit = Smaller(NearestInRange(m.softLimit),
                                     NearestInRange(m.hardLimit))
            /\ o.current = Smaller(NearestInRange(m.current),
                                   NearestInRange(m.hardLimit))
            /\ (m.softLimit > m.hardLimit) => (o.softLimit = o.hardLimit)
            /\ (m = Metric(150, -5, 80)) => (o = Metric(80, 0, 80))
            /\ rs.out.changed = (o # m)
            /\ DOMAIN rs.out.values = DOMAIN rs.in
            /\ \A n \in DOMAIN rs.in \ {metricKey} : rs.out.values[n] = rs.in[n]

C14_Witness ==
    /\ rs.stage = "normalised"
    /\ rs.in = Values(150, -5, 80)
    /\ rs.out.values = Values(80, 0, 80) /\ rs.out.changed

\* C15: migrateLegacyValues returns ok = FALSE for bytes that do not decode
\* or carry no limits object; for bytes with a limits object {soft, hard} it
\* returns ok = TRUE and a one-entry map with hardLimit = clamp(hard),
\* softLimit = min(clamp(soft), clamp(hard)) and current = softLimit; a second
\* application to the same bytes gives the same result.
C15_MigrateFormula ==
    rs.stage = "migrated" =>
        /\ rs.out.ok = (rq.data.kind = "json" /\ rq.data.limits # NoLimits)
        /\ ~rs.out.ok => rs.out.values = NoValues
        /\ rs.out.ok =>
              LET l == rq.data.limits[1]
                  o == rs.out.values[metricKey]
              IN  /\ DOMAIN rs.out.values = {metricKey}
                  /\ o.hardLimit = NearestInRange(l.hard)
                  /\ o.softLimit = Smaller(NearestInRange(l.soft),
                                           NearestInRange(l.hard))
                  /\ o.current = o.softLimit
        /\ rs.again = rs.out

C15_Witness ==
    /\ rs.stage = "migrated"
    /\ rq.data.kind = "json" /\ rq.data.limits = Limits(150, 40)
    /\ rs.out.ok /\ rs.out.values = Values(40, 40, 40)

(********************** claims: reads of the peer variant ******************)

\* the descriptor carries the recognised metric, in range and ordered
MetricInRange(doc) ==
    /\ doc.kind = "json"
    /\ metricKey \in DOMAIN doc.values
    /\ LET m == doc.values[metricKey] IN
       /\ 0 <= m.softLimit /\ m.softLimit <= m.hardLimit /\ m.hardLimit <= 100
       /\ 0 <= m.current /\ m.current <= m.hardLimit

\* stored bytes that decode, lack the recognised metric and offer nothing that
\* migration could take it from
Unpopulatable(doc) ==
    /\ doc.kind = "json"
    /\ metricKey \notin DOMAIN doc.values
    /\ (doc.values # NoValues \/ doc.limits = NoLimits)

\* C13: every successful getValue and listValues response of the peer variant
\* carries, for each descriptor, the recognised metric with 0 <= softLimit <=
\* hardLimit <= 100 and 0 <= current <= hardLimit; a stored record whose metric
\* migration cannot populate is answered with an error.
C13_NoEmptyMetricsReturned ==
    \A s \in Slots :
        LET p == procs[s] IN
        (variant = "peer" /\ p.pc = "done") =>
            /\ (p.op = "get" /\ p.code = 200) => MetricInRange(p.body)
            /\ (p.op = "list" /\ p.code = 200) =>
                  /\ \A i \in 1..Len(p.values) : MetricInRange(p.values[i])
                  /\ Len(p.values) = Len(p.keys)
            /\ (p.op \in {"get", "list"} /\ p.key # <<>> /\ p.alone
                   /\ ~p.ioerr /\ Unpopulatable(p.pre[p.key]))
                  => (p.code = 500 /\ p.puts \subseteq p.visited \ {p.key})

\* a listValues answers two descriptors of which it migrated one, and a
\* getValue answers that descriptor
C13_Witness ==
    \E s, t \in Slots :
        /\ variant = "peer"
        /\ procs[s].op = "list" /\ procs[s].pc = "done" /\ procs[s].code = 200
        /\ Len(procs[s].values) = 2 /\ procs[s].puts # {}
        /\ \E k \in procs[s].puts : procs[s].pre[k] = DocOldSchema
        /\ procs[t].op = "get" /\ procs[t].pc = "done" /\ procs[t].code = 200
        /\ procs[t].body.values = Values(40, 40, 90)
        /\ procs[t].body.peerId = A

\* the record is in the current form with its metric in range
CurrentForm(doc) ==
    /\ MetricInRange(doc)
    /\ TrimSpace(doc.peerId) # <<>>

\* C16: a getValue of the peer variant puts only when decodeValuePayload
\* reports updated for the bytes it read, and only to the key it read; a
\* getValue alone on a record in current, in-range form leaves the store as it
\* was; a getValue that runs alone on the record a repairing getValue wrote
\* puts nothing.
C16_ReadWithoutRepairDoesNotWrite ==
    \A s \in Slots :
        LET p == procs[s] IN
        (variant = "peer" /\ p.op = "get") =>
            /\ p.puts \subseteq {p.key}
            /\ (p.puts # {} \/ p.pc = "rewrite") =>
                  /\ Present(p.pre, p.key)
                  /\ decodeValuePayload(p.pre[p.key], p.key).updated
            /\ (p.pc = "done" /\ p.alone /\ p.key # <<>>
                   /\ CurrentForm(p.pre[p.key])) =>
                  (store = p.pre /\ p.puts = {})
            /\ \A t \in Slots \ {s} :
                  (/\ p.pc = "done" /\ p.alone
                   /\ procs[t].op = "get" /\ procs[t].pc = "done"
                   /\ procs[t].puts # {}
                   /\ p.key = procs[t].key
                   /\ p.pre[p.key] = procs[t].body)
                      => (p.puts = {} /\ store = p.pre)

\* a repairing getValue followed by a getValue of the same peer
C16_Witness ==
    \E s, t \in Slots :
        /\ variant = "peer" /\ s # t
        /\ procs[t].op = "get" /\ procs[t].pc = "done" /\ procs[t].puts # {}
        /\ procs[s].op = "get" /\ procs[s].pc = "done" /\ procs[s].alone
        /\ procs[s].code = 200 /\ procs[s].puts = {}
        /\ procs[s].key = procs[t].key
        /\ procs[s].pre[procs[s].key] = procs[t].body
        /\ procs[s].body = procs[t].body

(******************* claims: lookup of the legacy variant ******************)

\* the peerId field embedded in stored bytes, trimmed; empty for bytes that do
\* not decode
EmbeddedPeerID(doc) == TrimSpace(Unmarshal1(doc).payload.PeerID)

\* C17: the record findValueByPeerID(store, p) returns to getValue and
\* deleteValue of the legacy variant belongs to peer p: its embedded peerId,
\* trimmed, equals p or is empty.  Stated for identifiers p that carry no
\* surrounding blanks, and for lookups without storage errors.
C17_FoundRecordBelongsToPeer ==
    \A s \in Slots :
        LET p == procs[s] IN
        (/\ variant = "legacy" /\ p.op \in {"get", "delete"}
         /\ p.peerID = TrimSpace(p.peerID) /\ ~p.ioerr
         /\ p.key # <<>> /\ Present(p.pre, p.key))
            => EmbeddedPeerID(p.pre[p.key]) \in {p.peerID, <<>>}

\* C18: in the legacy variant, after deleteValue for p answered "deleted" a
\* getValue for p that follows with no operation in between answers NotFound
\* (no storage call of either request fails).
C18_DeleteIsComplete ==
    (/\ variant = "legacy"
     /\ procs["r1"].op = "delete" /\ procs["r1"].msg = "deleted"
     /\ ~procs["r1"].ioerr
     /\ procs["r2"].op = "get" /\ procs["r2"].pc = "done"
     /\ procs["r2"].peerID = procs["r1"].peerID)
        => procs["r2"].code = 404

=============================================================================
